---- MODULE Spec2Model ----
(***************************************************************************)
(* Model of the resource lifecycle of terraform-provider-opensearch:       *)
(* the Create / Read / Update / Delete handlers of the model-group,        *)
(* connector and model-register resources, and waitForMLTaskCompletion,    *)
(* the loop that polls a remote ML task until it is terminal, the deadline *)
(* timer fires or the context is cancelled.                                *)
(*                                                                         *)
(* One resource of one kind is followed.  The host tool's state store      *)
(* (stored), the remote control plane (remote, issued) and the answers of  *)
(* the remote client (status, body, transport failures, latency) are the   *)
(* environment: they are nondeterministic inputs of the handlers.          *)
(*                                                                         *)
(* Go strings are TLA+ strings.  A JSON body is [json, obj]: whether it    *)
(* parses, and its members as a set of <<name, value>> pairs.              *)
(***************************************************************************)
EXTENDS Naturals, Integers, Sequences, FiniteSets, TLC

VARIABLES
    kind,       \* which resource type this resource is
    stored,     \* the host tool's state for the resource (tfsdk.State)
    remote,     \* identifiers of the artifacts that exist remotely
    issued,     \* how many identifiers the remote has handed out
    prev,       \* summary of the call before the current one
    cur,        \* the current (or most recent) handler call
    pc,         \* where waitForMLTaskCompletion is: idle, select, request, done
    now,        \* time since the poller's timers were created
    tickReady,  \* a tick is buffered in ticker.C
    cancelled,  \* ctx.Done() is closed
    cancelAt,   \* when ctx was cancelled (-1: not cancelled)
    reqEnd,     \* when the status request in flight is answered
    polls,      \* status requests sent by this poller call
    waits,      \* status answers that left the poller waiting
    taskResp,   \* the last answer to a status request
    respAt,     \* when that answer arrived
    ret,        \* what waitForMLTaskCompletion returned
    calls       \* the Delete calls that run at the same time (DeleteRaceSpec)

vars == <<kind, stored, remote, issued, prev, cur, pc, now, tickReady,
          cancelled, cancelAt, reqEnd, polls, waits, taskResp, respAt, ret,
          calls>>

pollerVars == <<pc, now, tickReady, cancelled, cancelAt, reqEnd, polls, waits,
                taskResp, respAt, ret>>

----------------------------------------------------------------------------
(* Bounds of the model. *)

\* The deadline in poll intervals (450 in the source: 15 minutes / 2 seconds).
TimeoutTicks == 4

\* The longest a status request takes to be answered, in time units.
MaxReqDur == 2

\* How far past the deadline the clock is followed.
Overrun == 3

----------------------------------------------------------------------------
(* Program constants. *)

\* pollInterval, in time units of one second.
PollInterval == 2

\* timeout, in the same units, scaled by TimeoutTicks.
Timeout == TimeoutTicks * PollInterval

MaxTime == Timeout + Overrun

StatusOK == 200
StatusMultipleChoices == 300
StatusNotFound == 404

TaskStateCompleted == "COMPLETED"
TaskStateFailed == "FAILED"

Kinds == {"model_group", "connector", "model_register"}

\* Statuses the remote answers with: the edges of the 2xx test, 404 and a
\* server error.
Statuses == {200, 300, 404, 500}

\* Identifiers the remote hands out, in this order.
IdSeq == <<"m1", "m2">>

\* The declared fields of the resource (name/description, or body).
Decls == {"d1"}

TaskIds == {"t1"}

----------------------------------------------------------------------------
(* types.String *)

StringNull == [null |-> TRUE, unknown |-> FALSE, value |-> ""]
StringUnknown == [null |-> FALSE, unknown |-> TRUE, value |-> ""]
StringValue(s) == [null |-> FALSE, unknown |-> FALSE, value |-> s]
IsNull(v) == v.null
IsUnknown(v) == v.unknown
ValueString(v) == IF v.null \/ v.unknown THEN "" ELSE v.value

\* The state of a resource: absent, or its identifier and declared fields.
NoState == [present |-> FALSE, id |-> StringNull, decl |-> ""]
State(id, decl) == [present |-> TRUE, id |-> id, decl |-> decl]

----------------------------------------------------------------------------
(* JSON bodies and responses *)

NoBody == [json |-> FALSE, obj |-> {}]
BadJSON == [json |-> FALSE, obj |-> {<<"raw", "not json">>}]
Obj(members) == [json |-> TRUE, obj |-> members]

\* json.Unmarshal into a string field: the member's value, "" when absent.
Field(body, name) ==
    IF \E p \in body.obj : p[1] = name
    THEN (CHOOSE p \in body.obj : p[1] = name)[2]
    ELSE ""

\* A response of client.Client.Perform followed by io.ReadAll:
\* err is "perform" (Perform failed), "read" (ReadAll failed) or "".
NoResp == [err |-> "none", status |-> 0, body |-> NoBody]
PerformError == [err |-> "perform", status |-> 0, body |-> NoBody]
ReadError(s) == [err |-> "read", status |-> s, body |-> NoBody]
Answer(s, b) == [err |-> "", status |-> s, body |-> b]

\* NotOK with the upper edge off by one: 300 passes as a success.
NotOK_UpperEdge(status) == status < StatusOK \/ status > StatusMultipleChoices

\* The status test every handler uses: StatusCode < 200 || StatusCode >= 300.
NotOK(status) == status < StatusOK \/ status >= StatusMultipleChoices

----------------------------------------------------------------------------
(* Diagnostics *)

NoDiag == [summary |-> "", status |-> 0, body |-> NoBody, cause |-> ""]
\* AddError(summary, err.Error())
ErrDiag(summary, cause) ==
    [summary |-> summary, status |-> 0, body |-> NoBody, cause |-> cause]
\* AddError(summary, fmt.Sprintf("OpenSearch returned %d: %s", status, body))
StatusDiag(summary, status, body) ==
    [summary |-> summary, status |-> status, body |-> body, cause |-> ""]
HasError(d) == d # NoDiag

----------------------------------------------------------------------------
(* Requests *)

Req(method, path) == [method |-> method, path |-> path]

CreatePath(k) ==
    CASE k = "model_group" -> "/_plugins/_ml/model_groups/_register"
      [] k = "connector" -> "/_plugins/_ml/connectors/_create"
      [] k = "model_register" -> "/_plugins/_ml/models/_register?deploy=true"

\* ItemPath with the connector's items looked up among the models.
ItemPath_Swapped(k, id) ==
    CASE k = "model_group" -> "/_plugins/_ml/model_groups/" \o id
      [] k = "connector" -> "/_plugins/_ml/models/" \o id
      [] k = "model_register" -> "/_plugins/_ml/models/" \o id

ItemPath(k, id) ==
    CASE k = "model_group" -> "/_plugins/_ml/model_groups/" \o id
      [] k = "connector" -> "/_plugins/_ml/connectors/" \o id
      [] k = "model_register" -> "/_plugins/_ml/models/" \o id

TaskPath(taskID) == "/_plugins/_ml/tasks/" \o taskID

\* The member of the create response the handler reads.
IdField(k) ==
    CASE k = "model_group" -> "model_group_id"
      [] k = "connector" -> "connector_id"
      [] k = "model_register" -> "task_id"

----------------------------------------------------------------------------
(* What the remote client can answer *)

OKStatuses == {s \in Statuses : s >= 200 /\ s <= 299}

ErrBody == Obj({<<"error", "rejected">>})
FoundBody == Obj({<<"name", "remote copy">>})

\* The identifier the remote hands out next, "" when the model has run out.
NextId == IF issued < Len(IdSeq) THEN IdSeq[issued + 1] ELSE ""

\* Bodies of a 2xx answer to a create request: not JSON, no identifier
\* member, an empty one, a task or artifact identifier.
CreateBodies(k) ==
    {BadJSON, Obj({}), Obj({<<IdField(k), "">>})}
    \cup (IF k = "model_register"
          THEN {Obj({<<"task_id", t>>, <<"status", "CREATED">>}) : t \in TaskIds}
          ELSE IF NextId # "" THEN {Obj({<<IdField(k), NextId>>})} ELSE {})

CreateResponses(k) ==
    {PerformError} \cup {ReadError(s) : s \in Statuses}
        \cup {Answer(s, ErrBody) : s \in Statuses \ OKStatuses}
        \cup {Answer(s, b) : s \in OKStatuses, b \in CreateBodies(k)}

\* Bodies of a 2xx answer to a get or delete request: the remote's copy of
\* the artifact, an empty object, something that is not JSON.
ItemBodies == {FoundBody, Obj({}), BadJSON}

ItemResponses ==
    {PerformError} \cup {ReadError(s) : s \in Statuses}
        \cup {Answer(s, ErrBody) : s \in Statuses \ OKStatuses}
        \cup {Answer(s, b) : s \in OKStatuses, b \in ItemBodies}

\* A synchronous create answered 2xx with a new identifier made an artifact.
MadeArtifact(k, r) ==
    /\ k # "model_register"
    /\ r.err = ""
    /\ r.status \in OKStatuses
    /\ NextId # ""
    /\ Field(r.body, IdField(k)) = NextId

\* A delete answered 2xx removed the artifact.
RemoteAfterDelete(id, r) ==
    IF r.err \in {"", "read"} /\ r.status \in OKStatuses
    THEN remote \ {id}
    ELSE remote

----------------------------------------------------------------------------
(* The handlers, as functions of the state the host hands in and of the    *)
(* answer to the request they send.  Each yields the requests sent, the    *)
(* diagnostics and the state the handler leaves (resp.State).              *)

Result(reqs, diag, out) == [reqs |-> reqs, diag |-> diag, out |-> out]

\* CreateHandler that sends its request again when the first answer is in.
CreateHandler_TwoPosts(k, plan, r) ==
    LET reqs == <<Req("POST", CreatePath(k)), Req("POST", CreatePath(k))>>
        fail(d) == [reqs |-> reqs, diag |-> d, out |-> NoState,
                    wait |-> FALSE, taskID |-> ""]
    IN  IF r.err = "perform" THEN fail(ErrDiag("Error registering model", "perform"))
        ELSE IF r.err = "read" THEN fail(ErrDiag("Error reading create response", "read"))
        ELSE IF NotOK(r.status)
             THEN fail(StatusDiag("Error registering", r.status, r.body))
        ELSE IF ~r.body.json
             THEN fail(ErrDiag("Error parsing create response", "unmarshal"))
        ELSE IF k = "model_register"
             THEN [reqs |-> reqs, diag |-> NoDiag, out |-> NoState,
                   wait |-> TRUE, taskID |-> Field(r.body, "task_id")]
        ELSE [reqs |-> reqs, diag |-> NoDiag,
              out |-> State(StringValue(Field(r.body, IdField(k))), plan.decl),
              wait |-> FALSE, taskID |-> ""]

\* CreateHandler that takes a 404 for "nothing to do", as Read and Delete do.
CreateHandler_404Absent(k, plan, r) ==
    LET reqs == <<Req("POST", CreatePath(k))>>
        fail(d) == [reqs |-> reqs, diag |-> d, out |-> NoState,
                    wait |-> FALSE, taskID |-> ""]
    IN  IF r.err = "perform" THEN fail(ErrDiag("Error registering model", "perform"))
        ELSE IF r.err = "read" THEN fail(ErrDiag("Error reading create response", "read"))
        ELSE IF r.status = StatusNotFound THEN fail(NoDiag)
        ELSE IF NotOK(r.status)
             THEN fail(StatusDiag("Error registering", r.status, r.body))
        ELSE IF ~r.body.json
             THEN fail(ErrDiag("Error parsing create response", "unmarshal"))
        ELSE IF k = "model_register"
             THEN [reqs |-> reqs, diag |-> NoDiag, out |-> NoState,
                   wait |-> TRUE, taskID |-> Field(r.body, "task_id")]
        ELSE [reqs |-> reqs, diag |-> NoDiag,
              out |-> State(StringValue(Field(r.body, IdField(k))), plan.decl),
              wait |-> FALSE, taskID |-> ""]

\* CreateHandler without the status test: whatever parses is taken.
CreateHandler_NoStatusTest(k, plan, r) ==
    LET reqs == <<Req("POST", CreatePath(k))>>
        fail(d) == [reqs |-> reqs, diag |-> d, out |-> NoState,
                    wait |-> FALSE, taskID |-> ""]
    IN  IF r.err = "perform" THEN fail(ErrDiag("Error registering model", "perform"))
        ELSE IF r.err = "read" THEN fail(ErrDiag("Error reading create response", "read"))
        ELSE IF ~r.body.json
             THEN fail(ErrDiag("Error parsing create response", "unmarshal"))
        ELSE IF k = "model_register"
             THEN [reqs |-> reqs, diag |-> NoDiag, out |-> NoState,
                   wait |-> TRUE, taskID |-> Field(r.body, "task_id")]
        ELSE [reqs |-> reqs, diag |-> NoDiag,
              out |-> State(StringValue(Field(r.body, IdField(k))), plan.decl),
              wait |-> FALSE, taskID |-> ""]

\* Create up to and including the parse of the create response.  resp.State
\* is null until State.Set.  wait: the model-register handler goes on to
\* waitForMLTaskCompletion with the task identifier it parsed.
CreateHandler(k, plan, r) ==
    LET reqs == <<Req("POST", CreatePath(k))>>
        fail(d) == [reqs |-> reqs, diag |-> d, out |-> NoState,
                    wait |-> FALSE, taskID |-> ""]
    IN  IF r.err = "perform" THEN fail(ErrDiag("Error registering model", "perform"))
        ELSE IF r.err = "read" THEN fail(ErrDiag("Error reading create response", "read"))
        ELSE IF NotOK(r.status)
             THEN fail(StatusDiag("Error registering", r.status, r.body))
        ELSE IF ~r.body.json
             THEN fail(ErrDiag("Error parsing create response", "unmarshal"))
        ELSE IF k = "model_register"
             THEN [reqs |-> reqs, diag |-> NoDiag, out |-> NoState,
                   wait |-> TRUE, taskID |-> Field(r.body, "task_id")]
        ELSE [reqs |-> reqs, diag |-> NoDiag,
              out |-> State(StringValue(Field(r.body, IdField(k))), plan.decl),
              wait |-> FALSE, taskID |-> ""]

\* MissingID without the test for the empty string.
MissingID_NoEmpty(st) == IsNull(st.id) \/ IsUnknown(st.id)

\* MissingID without the IsUnknown test.
MissingID_NoUnknown(st) == IsNull(st.id) \/ st.id = StringValue("")

\* The guard of Read and Delete: no identifier to work with.
MissingID(st) ==
    IsNull(st.id) \/ IsUnknown(st.id) \/ ValueString(st.id) = ""

\* ReadHandler that sends its request a second time when Perform fails, and
\* takes the second attempt for a success.
ReadHandler_Retry(k, st, r) ==
    LET reqs == <<Req("GET", ItemPath(k, ValueString(st.id)))>>
    IN  IF MissingID(st) THEN Result(<<>>, NoDiag, NoState)
        ELSE IF r.err = "perform" THEN Result(reqs \o reqs, NoDiag, st)
        ELSE IF r.status = StatusNotFound THEN Result(reqs, NoDiag, NoState)
        ELSE IF r.err = "read"
             THEN Result(reqs, ErrDiag("Error reading get response", "read"), st)
        ELSE IF NotOK(r.status)
             THEN Result(reqs, StatusDiag("Error reading", r.status, r.body), st)
        ELSE Result(reqs, NoDiag, st)

\* ReadHandler that refreshes the declared fields from the body it read.
ReadHandler_Refresh(k, st, r) ==
    LET reqs == <<Req("GET", ItemPath(k, ValueString(st.id)))>>
    IN  IF MissingID(st) THEN Result(<<>>, NoDiag, NoState)
        ELSE IF r.err = "perform"
             THEN Result(reqs, ErrDiag("Error reading", "perform"), st)
        ELSE IF r.status = StatusNotFound THEN Result(reqs, NoDiag, NoState)
        ELSE IF r.err = "read"
             THEN Result(reqs, ErrDiag("Error reading get response", "read"), st)
        ELSE IF NotOK(r.status)
             THEN Result(reqs, StatusDiag("Error reading", r.status, r.body), st)
        ELSE Result(reqs, NoDiag, State(st.id, Field(r.body, "name")))

\* ReadHandler that removes the resource when the remote has it.
ReadHandler_RemoveOnOK(k, st, r) ==
    LET reqs == <<Req("GET", ItemPath(k, ValueString(st.id)))>>
    IN  IF MissingID(st) THEN Result(<<>>, NoDiag, NoState)
        ELSE IF r.err = "perform"
             THEN Result(reqs, ErrDiag("Error reading", "perform"), st)
        ELSE IF r.status = StatusNotFound THEN Result(reqs, NoDiag, NoState)
        ELSE IF r.err = "read"
             THEN Result(reqs, ErrDiag("Error reading get response", "read"), st)
        ELSE IF NotOK(r.status)
             THEN Result(reqs, StatusDiag("Error reading", r.status, r.body), st)
        ELSE Result(reqs, NoDiag, NoState)

\* ReadHandler that drops the resource on every status that is not 2xx.
ReadHandler_DropOnError(k, st, r) ==
    LET reqs == <<Req("GET", ItemPath(k, ValueString(st.id)))>>
    IN  IF MissingID(st) THEN Result(<<>>, NoDiag, NoState)
        ELSE IF r.err = "perform"
             THEN Result(reqs, ErrDiag("Error reading", "perform"), st)
        ELSE IF NotOK(r.status) THEN Result(reqs, NoDiag, NoState)
        ELSE IF r.err = "read"
             THEN Result(reqs, ErrDiag("Error reading get response", "read"), st)
        ELSE Result(reqs, NoDiag, st)

\* Read: resp.State starts as the prior state.
ReadHandler(k, st, r) ==
    LET reqs == <<Req("GET", ItemPath(k, ValueString(st.id)))>>
    IN  IF MissingID(st) THEN Result(<<>>, NoDiag, NoState)
        ELSE IF r.err = "perform"
             THEN Result(reqs, ErrDiag("Error reading", "perform"), st)
        ELSE IF r.status = StatusNotFound THEN Result(reqs, NoDiag, NoState)
        ELSE IF r.err = "read"
             THEN Result(reqs, ErrDiag("Error reading get response", "read"), st)
        ELSE IF NotOK(r.status)
             THEN Result(reqs, StatusDiag("Error reading", r.status, r.body), st)
        ELSE Result(reqs, NoDiag, st)

\* Update: persists the planned state; sends nothing.
UpdateHandler(k, plan) == Result(<<>>, NoDiag, plan)

\* DeleteHandler that reports no error whatever the status.
DeleteHandler_SwallowsErrors(k, st, r) ==
    LET reqs == <<Req("DELETE", ItemPath(k, ValueString(st.id)))>>
    IN  IF MissingID(st) THEN Result(<<>>, NoDiag, st)
        ELSE IF r.err = "perform"
             THEN Result(reqs, ErrDiag("Error deleting", "perform"), st)
        ELSE IF r.err = "read"
             THEN Result(reqs, ErrDiag("Error reading delete response", "read"), st)
        ELSE Result(reqs, NoDiag, st)

\* DeleteHandler without the 404 case.
DeleteHandler_No404(k, st, r) ==
    LET reqs == <<Req("DELETE", ItemPath(k, ValueString(st.id)))>>
    IN  IF MissingID(st) THEN Result(<<>>, NoDiag, st)
        ELSE IF r.err = "perform"
             THEN Result(reqs, ErrDiag("Error deleting", "perform"), st)
        ELSE IF r.err = "read"
             THEN Result(reqs, ErrDiag("Error reading delete response", "read"), st)
        ELSE IF NotOK(r.status)
             THEN Result(reqs, StatusDiag("Error deleting", r.status, r.body), st)
        ELSE Result(reqs, NoDiag, st)

\* Delete: the handler leaves resp.State alone.
DeleteHandler(k, st, r) ==
    LET reqs == <<Req("DELETE", ItemPath(k, ValueString(st.id)))>>
    IN  IF MissingID(st) THEN Result(<<>>, NoDiag, st)
        ELSE IF r.err = "perform"
             THEN Result(reqs, ErrDiag("Error deleting", "perform"), st)
        ELSE IF r.err = "read"
             THEN Result(reqs, ErrDiag("Error reading delete response", "read"), st)
        ELSE IF r.status = StatusNotFound THEN Result(reqs, NoDiag, st)
        ELSE IF NotOK(r.status)
             THEN Result(reqs, StatusDiag("Error deleting", r.status, r.body), st)
        ELSE Result(reqs, NoDiag, st)

\* The plan of a create: the computed identifier is unknown.
CreatePlan(decl) == State(StringUnknown, decl)

\* UpdatePlan without UseStateForUnknown: the computed identifier is unknown
\* in every plan.
UpdatePlan_NoUseState(st) == State(StringUnknown, st.decl)

\* The plan of an update: UseStateForUnknown copies a non-null identifier
\* of the prior state; RequiresReplace keeps the declared fields the same.
UpdatePlan(st) ==
    State(IF IsNull(st.id) THEN StringUnknown ELSE st.id, st.decl)

----------------------------------------------------------------------------
(* waitForMLTaskCompletion *)

NoErr == [kind |-> "", status |-> 0, body |-> NoBody]
\* An error value of the poller: what it is, and the status and body in it.
Err(k, status, body) == [kind |-> k, status |-> status, body |-> body]
NoRet == [returned |-> FALSE, modelID |-> "", err |-> NoErr]
Return(modelID, err) == [returned |-> TRUE, modelID |-> modelID, err |-> err]

\* Bodies of a 2xx answer to a status request.
TaskBodies ==
    {BadJSON, Obj({}), Obj({<<"state", "RUNNING">>}),
     Obj({<<"state", TaskStateCompleted>>}),
     Obj({<<"state", TaskStateFailed>>, <<"error", "remote detail">>})}
    \cup (IF NextId # ""
          THEN {Obj({<<"state", TaskStateCompleted>>, <<"model_id", NextId>>})}
          ELSE {})

TaskResponses ==
    {PerformError} \cup {ReadError(s) : s \in Statuses}
        \cup {Answer(s, ErrBody) : s \in Statuses \ OKStatuses}
        \cup {Answer(s, b) : s \in OKStatuses, b \in TaskBodies}

\* A task reported complete with a new model identifier made the model.
MadeModel(r) ==
    /\ r.err = ""
    /\ r.status \in OKStatuses
    /\ NextId # ""
    /\ Field(r.body, "state") = TaskStateCompleted
    /\ Field(r.body, "model_id") = NextId

\* PollOnce that goes on polling when COMPLETED comes without a model_id.
PollOnce_CompletedNoIdWaits(taskID, r) ==
    IF r.err = "perform" THEN Return("", Err("perform", 0, NoBody))
    ELSE IF r.err = "read" THEN Return("", Err("read", 0, NoBody))
    ELSE IF r.status < StatusOK \/ r.status >= StatusMultipleChoices
         THEN Return("", Err("status", r.status, r.body))
    ELSE IF ~r.body.json THEN Return("", Err("unmarshal", 0, NoBody))
    ELSE IF Field(r.body, "state") = TaskStateCompleted
            /\ Field(r.body, "model_id") # ""
         THEN Return(Field(r.body, "model_id"), NoErr)
    ELSE IF Field(r.body, "state") = TaskStateFailed
         THEN Return("", Err("failed", 0, r.body))
    ELSE NoRet

\* PollOnce that polls again after a 404, for a task not yet visible.
PollOnce_404Waits(taskID, r) ==
    IF r.err = "perform" THEN Return("", Err("perform", 0, NoBody))
    ELSE IF r.err = "read" THEN Return("", Err("read", 0, NoBody))
    ELSE IF r.status = StatusNotFound THEN NoRet
    ELSE IF r.status < StatusOK \/ r.status >= StatusMultipleChoices
         THEN Return("", Err("status", r.status, r.body))
    ELSE IF ~r.body.json THEN Return("", Err("unmarshal", 0, NoBody))
    ELSE IF Field(r.body, "state") = TaskStateCompleted
         THEN IF Field(r.body, "model_id") # ""
              THEN Return(Field(r.body, "model_id"), NoErr)
              ELSE Return("", Err("no model id", 0, NoBody))
    ELSE IF Field(r.body, "state") = TaskStateFailed
         THEN Return("", Err("failed", 0, r.body))
    ELSE NoRet

\* PollOnce that returns on COMPLETED whether or not a model_id came with it.
PollOnce_AnyCompleted(taskID, r) ==
    IF r.err = "perform" THEN Return("", Err("perform", 0, NoBody))
    ELSE IF r.err = "read" THEN Return("", Err("read", 0, NoBody))
    ELSE IF r.status < StatusOK \/ r.status >= StatusMultipleChoices
         THEN Return("", Err("status", r.status, r.body))
    ELSE IF ~r.body.json THEN Return("", Err("unmarshal", 0, NoBody))
    ELSE IF Field(r.body, "state") = TaskStateCompleted
         THEN Return("", Err("no model id", 0, NoBody))
    ELSE IF Field(r.body, "state") = TaskStateFailed
         THEN Return("", Err("failed", 0, r.body))
    ELSE NoRet

\* PollOnce that takes FAILED for a state still in progress.
PollOnce_FailedWaits(taskID, r) ==
    IF r.err = "perform" THEN Return("", Err("perform", 0, NoBody))
    ELSE IF r.err = "read" THEN Return("", Err("read", 0, NoBody))
    ELSE IF r.status < StatusOK \/ r.status >= StatusMultipleChoices
         THEN Return("", Err("status", r.status, r.body))
    ELSE IF ~r.body.json THEN Return("", Err("unmarshal", 0, NoBody))
    ELSE IF Field(r.body, "state") = TaskStateCompleted
         THEN IF Field(r.body, "model_id") # ""
              THEN Return(Field(r.body, "model_id"), NoErr)
              ELSE Return("", Err("no model id", 0, NoBody))
    ELSE NoRet

\* The body of the ticker case once Perform has returned: a return value,
\* or NoRet when the loop goes round again.
PollOnce(taskID, r) ==
    IF r.err = "perform" THEN Return("", Err("perform", 0, NoBody))
    ELSE IF r.err = "read" THEN Return("", Err("read", 0, NoBody))
    ELSE IF r.status < StatusOK \/ r.status >= StatusMultipleChoices
         THEN Return("", Err("status", r.status, r.body))
    ELSE IF ~r.body.json THEN Return("", Err("unmarshal", 0, NoBody))
    ELSE IF Field(r.body, "state") = TaskStateCompleted
         THEN IF Field(r.body, "model_id") # ""
              THEN Return(Field(r.body, "model_id"), NoErr)
              ELSE Return("", Err("no model id", 0, NoBody))
    ELSE IF Field(r.body, "state") = TaskStateFailed
         THEN Return("", Err("failed", 0, r.body))
    ELSE NoRet

\* The select cases that return without a request.
OnDone == Return("", Err("context canceled", 0, NoBody))
OnDeadline == Return("", Err("timed out", 0, NoBody))

\* CreateFinish that reports every poller error as the same failure.
CreateFinish_Generic(plan, taskID, rv) ==
    IF rv.err # NoErr
    THEN [reqs |-> <<>>,
          diag |-> ErrDiag("Error waiting for model registration task",
                           "registration failed"),
          out |-> NoState]
    ELSE IF rv.modelID = ""
    THEN [reqs |-> <<>>,
          diag |-> ErrDiag("Error waiting for model registration task",
                           "no model_id"),
          out |-> NoState]
    ELSE [reqs |-> <<>>, diag |-> NoDiag,
          out |-> State(StringValue(rv.modelID), plan.decl)]

\* CreateFinish that cleans up after a poller error: it asks the remote to
\* delete the task it was waiting for.
CreateFinish_Cleanup(plan, taskID, rv) ==
    IF rv.err # NoErr
    THEN [reqs |-> <<Req("DELETE", TaskPath(taskID))>>,
          diag |-> [summary |-> "Error waiting for model registration task",
                    status |-> rv.err.status, body |-> rv.err.body,
                    cause |-> rv.err.kind],
          out |-> NoState]
    ELSE IF rv.modelID = ""
    THEN [reqs |-> <<>>,
          diag |-> ErrDiag("Error waiting for model registration task",
                           "no model_id"),
          out |-> NoState]
    ELSE [reqs |-> <<>>, diag |-> NoDiag,
          out |-> State(StringValue(rv.modelID), plan.decl)]

\* The rest of the model-register Create, after the poller has returned:
\* the requests it sends (none), its diagnostics and the state it leaves.
CreateFinish(plan, taskID, rv) ==
    IF rv.err # NoErr
    THEN [reqs |-> <<>>,
          diag |-> [summary |-> "Error waiting for model registration task",
                    status |-> rv.err.status, body |-> rv.err.body,
                    cause |-> rv.err.kind],
          out |-> NoState]
    ELSE IF rv.modelID = ""
    THEN [reqs |-> <<>>,
          diag |-> ErrDiag("Error waiting for model registration task",
                           "no model_id"),
          out |-> NoState]
    ELSE [reqs |-> <<>>, diag |-> NoDiag,
          out |-> State(StringValue(rv.modelID), plan.decl)]

----------------------------------------------------------------------------
(* State *)

NoCall == [op |-> "None", in |-> NoState, reqs |-> <<>>, resp |-> NoResp,
           diag |-> NoDiag, out |-> NoState, taskID |-> "", done |-> TRUE]

\* What is kept of a call once the next one starts: the operation, the
\* identifier it was called with (Create: the one it stored), the status of
\* the answer to its request (0: none was received) and whether it reported
\* no error.
Slim(c) == [op |-> c.op,
            id |-> ValueString(IF c.op = "Create" THEN c.out.id ELSE c.in.id),
            status |-> IF c.resp.err = "" THEN c.resp.status ELSE 0,
            ok |-> ~HasError(c.diag)]

\* PollerReset with a ticker that fires as soon as it is created.
PollerReset_TickAtOnce(p) ==
    /\ pc' = p
    /\ now' = 0
    /\ tickReady' = (p = "select")
    /\ cancelled' = FALSE
    /\ cancelAt' = -1
    /\ reqEnd' = 0
    /\ polls' = 0
    /\ waits' = 0
    /\ taskResp' = NoResp
    /\ respAt' = -1
    /\ ret' = NoRet

\* The poller's variables before its first wait (p = "select": the timer and
\* the ticker have just been created) or outside a call of it (p = "idle").
PollerReset(p) ==
    /\ pc' = p
    /\ now' = 0
    /\ tickReady' = FALSE
    /\ cancelled' = FALSE
    /\ cancelAt' = -1
    /\ reqEnd' = 0
    /\ polls' = 0
    /\ waits' = 0
    /\ taskResp' = NoResp
    /\ respAt' = -1
    /\ ret' = NoRet

\* The handler calls that may run at the same time, and one that has not
\* started: where it is (start, sent, answered, done), the answer it got and
\* its diagnostics.
Procs == {1, 2}
NoDelete == [pc |-> "start", resp |-> NoResp, diag |-> NoDiag]

Init ==
    /\ kind \in Kinds
    /\ stored = NoState
    /\ remote = {}
    /\ issued = 0
    /\ prev = Slim(NoCall)
    /\ cur = NoCall
    /\ pc = "idle"
    /\ now = 0
    /\ tickReady = FALSE
    /\ cancelled = FALSE
    /\ cancelAt = -1
    /\ reqEnd = 0
    /\ polls = 0
    /\ waits = 0
    /\ taskResp = NoResp
    /\ respAt = -1
    /\ ret = NoRet
    /\ calls = [p \in Procs |-> NoDelete]

\* The identifiers the host may hold for the resource.
HostIds ==
    {StringNull, StringUnknown, StringValue("")}
        \cup {StringValue(IdSeq[i]) : i \in 1..Len(IdSeq)}

\* A handler is called once the host has taken the answer of the one before.
Begin ==
    /\ cur.op = "None"
    /\ UNCHANGED prev

----------------------------------------------------------------------------
(* Actions *)

\* Between two calls the host tool takes what the handler answered and
\* keeps the state it left, or comes back holding another: none (the state
\* was lost or removed), or one with the identifier of an earlier run (a
\* retry after a failure in between).  The handler's frame is gone.
Host ==
    /\ cur.op # "None"
    /\ cur.done
    /\ prev' = Slim(cur)
    /\ cur' = NoCall
    /\ \E s \in {stored, NoState} \cup {State(id, d) : id \in HostIds, d \in Decls} :
          stored' = s
    /\ PollerReset("idle")
    /\ UNCHANGED <<kind, remote, issued>>
    /\ UNCHANGED calls

\* Create of a resource that has no state yet.
Create ==
    /\ Begin
    /\ ~stored.present
    /\ \E d \in Decls, r \in CreateResponses(kind) :
          LET plan == CreatePlan(d)
              h == CreateHandler(kind, plan, r)
          IN  /\ cur' = [op |-> "Create", in |-> plan, reqs |-> h.reqs,
                         resp |-> r, diag |-> h.diag, out |-> h.out,
                         taskID |-> h.taskID, done |-> ~h.wait]
              /\ stored' = h.out
              /\ remote' = IF MadeArtifact(kind, r)
                           THEN remote \cup {NextId} ELSE remote
              /\ issued' = IF MadeArtifact(kind, r) THEN issued + 1 ELSE issued
              /\ PollerReset(IF h.wait THEN "select" ELSE "idle")
    /\ UNCHANGED kind
    /\ UNCHANGED calls

Read ==
    /\ Begin
    /\ stored.present
    /\ \E r \in ItemResponses :
          LET h == ReadHandler(kind, stored, r)
              rr == IF h.reqs = <<>> THEN NoResp ELSE r
          IN  /\ cur' = [op |-> "Read", in |-> stored, reqs |-> h.reqs,
                         resp |-> rr, diag |-> h.diag, out |-> h.out,
                         taskID |-> "", done |-> TRUE]
              /\ stored' = h.out
    /\ PollerReset("idle")
    /\ UNCHANGED <<kind, remote, issued>>
    /\ UNCHANGED calls

Update ==
    /\ Begin
    /\ stored.present
    /\ LET plan == UpdatePlan(stored)
           h == UpdateHandler(kind, plan)
       IN  /\ cur' = [op |-> "Update", in |-> plan, reqs |-> h.reqs,
                      resp |-> NoResp, diag |-> h.diag, out |-> h.out,
                      taskID |-> "", done |-> TRUE]
           /\ stored' = h.out
    /\ PollerReset("idle")
    /\ UNCHANGED <<kind, remote, issued>>
    /\ UNCHANGED calls

\* Delete; the host drops the state of a resource whose Delete reported no
\* error and keeps it otherwise.
Delete ==
    /\ Begin
    /\ stored.present
    /\ \E r \in ItemResponses :
          LET h == DeleteHandler(kind, stored, r)
              rr == IF h.reqs = <<>> THEN NoResp ELSE r
          IN  /\ cur' = [op |-> "Delete", in |-> stored, reqs |-> h.reqs,
                         resp |-> rr, diag |-> h.diag, out |-> h.out,
                         taskID |-> "", done |-> TRUE]
              /\ stored' = IF HasError(h.diag) THEN h.out ELSE NoState
              /\ remote' = IF h.reqs = <<>> THEN remote
                           ELSE RemoteAfterDelete(ValueString(stored.id), r)
    /\ PollerReset("idle")
    /\ UNCHANGED <<kind, issued>>
    /\ UNCHANGED calls

----------------------------------------------------------------------------
(* The steps of waitForMLTaskCompletion inside the model-register Create *)

Waiting == pc \in {"select", "request"}

\* The channels of the select that are ready.
DoneReady == cancelled
DeadlineReady == now >= Timeout

\* The poller returns rv, and Create finishes with it.
Finish(rv) ==
    LET f == CreateFinish(cur.in, cur.taskID, rv)
    IN  /\ pc' = "done"
        /\ ret' = rv
        /\ cur' = [cur EXCEPT !.reqs = @ \o f.reqs, !.diag = f.diag,
                              !.out = f.out, !.done = TRUE]
        /\ stored' = f.out

\* Time passes while the poller is blocked: in the select with no channel
\* ready, or in Perform with the answer still to come.  The ticker fires at
\* every multiple of pollInterval; a tick that finds one buffered is dropped.
Tick ==
    /\ \/ pc = "select" /\ ~DoneReady /\ ~DeadlineReady /\ ~tickReady
       \/ pc = "request" /\ ~cancelled /\ now < reqEnd
    /\ now < MaxTime
    /\ now' = now + 1
    /\ tickReady' = (tickReady \/ (now + 1) % PollInterval = 0)
    /\ UNCHANGED <<kind, stored, remote, issued, prev, cur, pc,
                   cancelled, cancelAt, reqEnd, polls, waits, taskResp,
                   respAt, ret>>
    /\ UNCHANGED calls

\* The caller cancels ctx.
Cancel ==
    /\ Waiting
    /\ ~cancelled
    /\ cancelled' = TRUE
    /\ cancelAt' = now
    /\ UNCHANGED <<kind, stored, remote, issued, prev, cur, pc, now,
                   tickReady, reqEnd, polls, waits, taskResp, respAt, ret>>
    /\ UNCHANGED calls

\* case <-ctx.Done()
SelectDone ==
    /\ pc = "select"
    /\ DoneReady
    /\ Finish(OnDone)
    /\ UNCHANGED <<kind, remote, issued, prev, now, tickReady,
                   cancelled, cancelAt, reqEnd, polls, waits, taskResp, respAt>>
    /\ UNCHANGED calls

\* case <-deadline.C
SelectDeadline ==
    /\ pc = "select"
    /\ DeadlineReady
    /\ Finish(OnDeadline)
    /\ UNCHANGED <<kind, remote, issued, prev, now, tickReady,
                   cancelled, cancelAt, reqEnd, polls, waits, taskResp, respAt>>
    /\ UNCHANGED calls

\* case <-ticker.C, up to the call of Perform: the status request is sent and
\* will be answered d time units from now.
SelectTick ==
    /\ pc = "select"
    /\ tickReady
    /\ ~cancelled
    /\ tickReady' = FALSE
    /\ pc' = "request"
    /\ polls' = polls + 1
    /\ cur' = [cur EXCEPT !.reqs = Append(@, Req("GET", TaskPath(cur.taskID)))]
    /\ \E d \in 0..MaxReqDur :
          /\ now + d <= MaxTime
          /\ reqEnd' = now + d
    /\ UNCHANGED <<kind, stored, remote, issued, prev, now, cancelled,
                   cancelAt, waits, taskResp, respAt, ret>>
    /\ UNCHANGED calls

\* case <-ticker.C with ctx already cancelled: Perform fails at once with
\* the context's error, nothing is sent.
SelectTickCancelled ==
    /\ pc = "select"
    /\ tickReady
    /\ cancelled
    /\ tickReady' = FALSE
    /\ taskResp' = PerformError
    /\ respAt' = now
    /\ Finish(PollOnce(cur.taskID, PerformError))
    /\ UNCHANGED <<kind, remote, issued, prev, now, cancelled,
                   cancelAt, reqEnd, polls, waits>>
    /\ UNCHANGED calls

\* Perform returns: with the remote's answer when it is due, with the
\* context's error as soon as ctx is cancelled.  The rest of the ticker case
\* follows: a return, or back to the select.
Response ==
    /\ pc = "request"
    /\ \E r \in TaskResponses :
          /\ \/ now = reqEnd
             \/ cancelled /\ r = PerformError
          /\ taskResp' = r
          /\ respAt' = now
          /\ remote' = IF MadeModel(r) THEN remote \cup {NextId} ELSE remote
          /\ issued' = IF MadeModel(r) THEN issued + 1 ELSE issued
          /\ LET rv == PollOnce(cur.taskID, r)
             IN  IF rv.returned
                 THEN /\ Finish(rv)
                      /\ waits' = waits
                 ELSE /\ pc' = "select"
                      /\ waits' = waits + 1
                      /\ UNCHANGED <<cur, stored, ret>>
    /\ UNCHANGED <<kind, prev, now, tickReady, cancelled, cancelAt,
                   reqEnd, polls>>
    /\ UNCHANGED calls

Next ==
    \/ Host
    \/ Create
    \/ Read
    \/ Update
    \/ Delete
    \/ Tick
    \/ Cancel
    \/ SelectDone
    \/ SelectDeadline
    \/ SelectTick
    \/ SelectTickCancelled
    \/ Response

Spec == Init /\ [][Next]_vars

----------------------------------------------------------------------------
(* Two Delete calls for the same resource at the same time.  The handlers   *)
(* share nothing but the remote, which takes one request at a time: it      *)
(* deletes the artifact if it has it, and otherwise answers that it is gone *)
(* (404) or accepts the request again (2xx).                                *)

\* The identifier both calls are given.
RaceId == ValueString(stored.id)

DeleteRaceInit ==
    /\ kind \in Kinds
    /\ \E i \in 1..Len(IdSeq), d \in Decls :
          /\ stored = State(StringValue(IdSeq[i]), d)
          /\ remote \in {r \in SUBSET {IdSeq[j] : j \in 1..Len(IdSeq)} : IdSeq[i] \in r}
    /\ issued = Len(IdSeq)
    /\ prev = Slim(NoCall)
    /\ cur = NoCall
    /\ pc = "idle"
    /\ now = 0
    /\ tickReady = FALSE
    /\ cancelled = FALSE
    /\ cancelAt = -1
    /\ reqEnd = 0
    /\ polls = 0
    /\ waits = 0
    /\ taskResp = NoResp
    /\ respAt = -1
    /\ ret = NoRet
    /\ calls = [p \in Procs |-> NoDelete]

\* What a race step leaves alone: everything but the remote and the calls.
RaceFrame ==
    UNCHANGED <<kind, stored, issued, prev, cur, pc, now, tickReady, cancelled,
                cancelAt, reqEnd, polls, waits, taskResp, respAt, ret>>

\* Delete of call p up to Perform: the identifier is there, the request is
\* sent.
DeleteSend(p) ==
    /\ calls[p].pc = "start"
    /\ ~MissingID(stored)
    /\ calls' = [calls EXCEPT ![p].pc = "sent"]
    /\ UNCHANGED remote
    /\ RaceFrame

\* The remote takes the request of call p.
RemoteDeletes(p) ==
    /\ calls[p].pc = "sent"
    /\ \E r \in {Answer(s, FoundBody) : s \in OKStatuses}
                   \cup {Answer(StatusNotFound, ErrBody)} :
          /\ RaceId \in remote => r.status \in OKStatuses
          /\ calls' = [calls EXCEPT ![p].pc = "answered", ![p].resp = r]
          /\ remote' = RemoteAfterDelete(RaceId, r)
    /\ RaceFrame

\* Perform returns in call p, and the rest of Delete runs.
DeleteReturn(p) ==
    /\ calls[p].pc = "answered"
    /\ calls' = [calls EXCEPT
                   ![p].pc = "done",
                   ![p].diag = DeleteHandler(kind, stored, calls[p].resp).diag]
    /\ UNCHANGED remote
    /\ RaceFrame

DeleteRaceNext ==
    \E p \in Procs :
       \/ DeleteSend(p)
       \/ RemoteDeletes(p)
       \/ DeleteReturn(p)

DeleteRaceSpec == DeleteRaceInit /\ [][DeleteRaceNext]_vars

----------------------------------------------------------------------------
(* Properties *)

Is2xx(status) == status >= 200 /\ status <= 299

\* The status requests among the requests of the current call.
StatusRequests == SelectSeq(cur.reqs, LAMBDA q : q = Req("GET", TaskPath(cur.taskID)))

\* An answer to a status request that was received whole, with a 2xx status,
\* a JSON body and the given task state.
TaskAnswered(state) ==
    /\ taskResp.err = ""
    /\ Is2xx(taskResp.status)
    /\ taskResp.body.json
    /\ Field(taskResp.body, "state") = state

\* C1: Delete is idempotent.  A Delete of a non-empty identifier answered
\* 2xx, followed by a Delete of the same identifier answered 404, reports
\* no error either time, whatever the kind of the resource.
C1_DeleteTwice ==
    /\ prev.op = "Delete"
    /\ cur.op = "Delete"
    /\ prev.id # ""
    /\ ValueString(cur.in.id) = prev.id
    /\ Is2xx(prev.status)
    /\ cur.resp.err = ""
    /\ cur.resp.status = 404

C1_DeleteIdempotent ==
    C1_DeleteTwice =>
        /\ prev.ok
        /\ cur.done
        /\ ~HasError(cur.diag)
        /\ ~stored.present

C1_Witness ==
    /\ C1_DeleteTwice
    /\ kind = "model_register"
    /\ prev.ok
    /\ ~HasError(cur.diag)
    /\ cur.reqs = <<Req("DELETE", "/_plugins/_ml/models/m1")>>

\* C2: the poller's success path.  When the poller has returned on a status
\* answer that arrived before the deadline, with ctx not cancelled, and that
\* answer is COMPLETED with a non-empty model_id m after n-1 answers that
\* left it waiting, it returned m and no error after exactly n status
\* requests, and Create stored m.  Before the deadline and without a
\* cancellation the poller returns neither timed out nor cancelled.
C2_CompletedInTime ==
    /\ pc = "done"
    /\ ~cancelled
    /\ now < Timeout
    /\ TaskAnswered(TaskStateCompleted)
    /\ Field(taskResp.body, "model_id") # ""

C2_PollerSuccess ==
    /\ C2_CompletedInTime =>
          /\ ret = Return(Field(taskResp.body, "model_id"), NoErr)
          /\ respAt = now
          /\ polls = waits + 1
          /\ Len(StatusRequests) = polls
          /\ ~HasError(cur.diag)
          /\ stored.id = StringValue(Field(taskResp.body, "model_id"))
    /\ (pc = "done" /\ ~cancelled /\ now < Timeout) =>
          ret.err.kind \notin {"timed out", "context canceled"}

C2_Witness ==
    /\ C2_CompletedInTime
    /\ waits = 2
    /\ polls = 3
    /\ ret = Return("m1", NoErr)

\* C3: while every status answer is non-terminal and ctx is not cancelled,
\* the poller is never still blocked (in the select or in a request) later
\* than the deadline plus one poll interval.
C3_BlockedWithinDeadline ==
    (Waiting /\ ~cancelled) => now <= Timeout + PollInterval

\* C4: a cancellation raised between two ticks ends the poller with the
\* context's error, never with the time-out error.
C4_CancelNeverTimedOut ==
    (pc = "done" /\ cancelled /\ cancelAt % PollInterval # 0) =>
        ret.err.kind # "timed out"

\* C5: a 2xx status answer whose state is FAILED makes the poller return a
\* task-failed error carrying the answer's body in the same step: no time
\* passes, and no status request follows the one that was answered.
C5_FailedImmediate ==
    TaskAnswered(TaskStateFailed) =>
        /\ pc = "done"
        /\ ret = Return("", Err("failed", 0, taskResp.body))
        /\ now = respAt
        /\ polls = waits + 1
        /\ Len(StatusRequests) = polls
        /\ cur.done
        /\ cur.diag.cause = "failed"
        /\ cur.diag.body = taskResp.body
        /\ ~stored.present

C5_Witness ==
    /\ TaskAnswered(TaskStateFailed)
    /\ pc = "done"
    /\ waits = 1
    /\ ret.err.kind = "failed"
    /\ ret.err.body = Obj({<<"state", "FAILED">>, <<"error", "remote detail">>})

\* C6: a model-register Create whose register request is answered with a
\* status outside 2xx fails with an error carrying that status and body and
\* never starts the poller: the POST is the only request of the call.
C6_RegisterRejected ==
    /\ kind = "model_register"
    /\ cur.op = "Create"
    /\ cur.resp.err = ""
    /\ ~Is2xx(cur.resp.status)

C6_NoPollAfterRejection ==
    C6_RegisterRejected =>
        /\ cur.done
        /\ pc = "idle"
        /\ polls = 0
        /\ cur.reqs = <<Req("POST", "/_plugins/_ml/models/_register?deploy=true")>>
        /\ cur.diag.status = cur.resp.status
        /\ cur.diag.body = cur.resp.body

C6_Witness ==
    /\ C6_RegisterRejected
    /\ cur.resp.status = 500
    /\ cur.diag.status = 500
    /\ Len(cur.reqs) = 1

\* C7: for every kind, a Create whose create request is answered with a
\* status outside 2xx fails with an error carrying that status and body
\* and stores nothing.
C7_CreateRejected ==
    /\ cur.op = "Create"
    /\ cur.resp.err = ""
    /\ ~Is2xx(cur.resp.status)

C7_RejectedStoresNothing ==
    C7_CreateRejected =>
        /\ cur.done
        /\ HasError(cur.diag)
        /\ cur.diag.status = cur.resp.status
        /\ cur.diag.body = cur.resp.body
        /\ cur.out = NoState
        /\ stored = NoState

C7_Witness ==
    /\ C7_CreateRejected
    /\ kind = "connector"
    /\ cur.resp.status = 300
    /\ cur.diag = StatusDiag("Error registering", 300, ErrBody)
    /\ stored = NoState

\* C8: for model-group and connector, a Create answered 2xx with a JSON
\* body that has no identifier member fails and stores nothing.
C8_MissingIdentifierFails ==
    ( /\ kind \in {"model_group", "connector"}
      /\ cur.op = "Create"
      /\ cur.resp.err = ""
      /\ Is2xx(cur.resp.status)
      /\ cur.resp.body.json
      /\ ~\E p \in cur.resp.body.obj : p[1] = IdField(kind) ) =>
        /\ HasError(cur.diag)
        /\ ~stored.present

\* C9: for every kind, a Read given a null, unknown or empty identifier
\* sends no request, removes the resource from state and reports no error.
C9_ReadWithoutId ==
    /\ cur.op = "Read"
    /\ cur.in.id \in {StringNull, StringUnknown, StringValue("")}

C9_ReadWithoutIdAbsent ==
    C9_ReadWithoutId =>
        /\ cur.reqs = <<>>
        /\ cur.resp = NoResp
        /\ ~HasError(cur.diag)
        /\ cur.out = NoState
        /\ stored = NoState

C9_Witness ==
    /\ C9_ReadWithoutId
    /\ cur.in.id = StringUnknown
    /\ cur.reqs = <<>>
    /\ stored = NoState

\* C10: for every kind, a Read of a non-empty identifier answered 404
\* removes the resource from state without error; answered with another
\* status outside 2xx it fails with an error carrying that status and body
\* and leaves the stored state, identifier included, as it was.
C10_ReadAnswered ==
    /\ cur.op = "Read"
    /\ ValueString(cur.in.id) # ""
    /\ cur.resp.err = ""

C10_Read404AndRejected ==
    /\ (C10_ReadAnswered /\ cur.resp.status = 404) =>
          /\ ~HasError(cur.diag)
          /\ cur.out = NoState
          /\ stored = NoState
    /\ (C10_ReadAnswered /\ ~Is2xx(cur.resp.status) /\ cur.resp.status # 404) =>
          /\ HasError(cur.diag)
          /\ cur.diag.status = cur.resp.status
          /\ cur.diag.body = cur.resp.body
          /\ cur.out = cur.in
          /\ stored = cur.in

C10_Witness ==
    /\ C10_ReadAnswered
    /\ kind = "model_group"
    /\ cur.resp.status = 404
    /\ cur.reqs = <<Req("GET", "/_plugins/_ml/model_groups/m2")>>
    /\ stored = NoState

\* C11: for every kind, a Delete answered with a status outside 2xx other
\* than 404 fails with an error carrying that status and body, and the
\* stored state, identifier included, is the one Delete was called with.
C11_DeleteRejected ==
    /\ cur.op = "Delete"
    /\ cur.resp.err = ""
    /\ ~Is2xx(cur.resp.status)
    /\ cur.resp.status # 404

C11_DeleteRejectedKeepsId ==
    C11_DeleteRejected =>
        /\ HasError(cur.diag)
        /\ cur.diag.status = cur.resp.status
        /\ cur.diag.body = cur.resp.body
        /\ cur.out = cur.in
        /\ stored = cur.in
        /\ stored.present
        /\ ValueString(stored.id) # ""

C11_Witness ==
    /\ C11_DeleteRejected
    /\ kind = "connector"
    /\ cur.resp.status = 500
    /\ cur.reqs = <<Req("DELETE", "/_plugins/_ml/connectors/m1")>>
    /\ stored.id = StringValue("m1")

\* C12: for every kind, a Read that directly follows a successful Create,
\* is called with the identifier that Create obtained from the remote and
\* stored, and whose GET is answered 2xx, keeps the state and reports no
\* error.
C12_CreateThenRead ==
    /\ prev.op = "Create"
    /\ prev.ok
    /\ prev.id # ""
    /\ cur.op = "Read"
    /\ cur.in.id = StringValue(prev.id)
    /\ cur.resp.err = ""
    /\ Is2xx(cur.resp.status)

C12_CreateThenReadPresent ==
    C12_CreateThenRead =>
        /\ prev.id \in remote
        /\ cur.reqs = <<Req("GET", ItemPath(kind, prev.id))>>
        /\ ~HasError(cur.diag)
        /\ cur.out = cur.in
        /\ stored = cur.in
        /\ stored.present

C12_Witness ==
    /\ C12_CreateThenRead
    /\ kind = "model_register"
    /\ prev.id = "m1"
    /\ cur.reqs = <<Req("GET", "/_plugins/_ml/models/m1")>>
    /\ stored = State(StringValue("m1"), "d1")

\* C13: a 2xx status answer whose state is COMPLETED and that carries no
\* model identifier makes the poller return an error in the same step, one
\* that is not the time-out error; no status request follows, and Create
\* reports the error and stores nothing.
C13_CompletedWithoutId ==
    /\ TaskAnswered(TaskStateCompleted)
    /\ Field(taskResp.body, "model_id") = ""

C13_CompletedWithoutIdFails ==
    C13_CompletedWithoutId =>
        /\ pc = "done"
        /\ ret = Return("", Err("no model id", 0, NoBody))
        /\ ret.err.kind # "timed out"
        /\ now = respAt
        /\ polls = waits + 1
        /\ Len(StatusRequests) = polls
        /\ cur.done
        /\ HasError(cur.diag)
        /\ cur.out = NoState
        /\ ~stored.present

C13_Witness ==
    /\ C13_CompletedWithoutId
    /\ pc = "done"
    /\ waits = 1
    /\ polls = 2
    /\ ret.err.kind = "no model id"
    /\ stored = NoState

\* C14: a 2xx status answer that is JSON without a state member is fatal:
\* the poller has returned an error for it.
C14_MissingStateFatal ==
    ( /\ taskResp.err = ""
      /\ Is2xx(taskResp.status)
      /\ taskResp.body.json
      /\ ~\E p \in taskResp.body.obj : p[1] = "state" ) =>
        /\ pc = "done"
        /\ ret.returned
        /\ ret.err # NoErr

\* C15: a status answer with a status outside 2xx, 404 included, makes the
\* poller return an error carrying that status and body in the same step;
\* the request it answered is the last status request of the call.
C15_PollRejected ==
    /\ taskResp.err = ""
    /\ ~Is2xx(taskResp.status)

C15_PollRejectedImmediate ==
    C15_PollRejected =>
        /\ pc = "done"
        /\ ret = Return("", Err("status", taskResp.status, taskResp.body))
        /\ now = respAt
        /\ polls = waits + 1
        /\ Len(StatusRequests) = polls
        /\ Len(cur.reqs) = polls + 1
        /\ cur.done
        /\ cur.diag.status = taskResp.status
        /\ cur.diag.body = taskResp.body
        /\ ~stored.present

C15_Witness ==
    /\ C15_PollRejected
    /\ taskResp.status = 404
    /\ waits = 2
    /\ polls = 3
    /\ ret.err.kind = "status"

\* C16: for every kind, Update sends no request and reports no error, and
\* the identifier stored after it is the one stored before it: the same
\* string, and the same value whenever the prior state held one.
C16_UpdateKeepsId ==
    [][Update =>
          /\ cur'.reqs = <<>>
          /\ cur'.resp = NoResp
          /\ ~HasError(cur'.diag)
          /\ remote' = remote
          /\ ValueString(stored'.id) = ValueString(stored.id)
          /\ (~IsNull(stored.id) => stored'.id = stored.id)
          /\ stored'.decl = stored.decl]_vars

C16_Witness ==
    /\ cur.op = "Update"
    /\ cur.reqs = <<>>
    /\ kind = "model_group"
    /\ cur.in = State(StringValue("m1"), "d1")
    /\ stored = State(StringValue("m1"), "d1")
    /\ remote = {"m1"}

\* The create requests among the requests of the current call.
CreateRequests == SelectSeq(cur.reqs, LAMBDA q : q.method = "POST")

\* C17: every Create call sends exactly one create request, its first
\* request; and of two successful Create calls in a row with the same
\* declared fields, each obtained an identifier of its own and both
\* artifacts exist remotely.
C17_TwoCreates ==
    /\ prev.op = "Create"
    /\ prev.ok
    /\ prev.id # ""
    /\ cur.op = "Create"
    /\ cur.done
    /\ ~HasError(cur.diag)
    /\ ValueString(cur.out.id) # ""

C18_PollerGaveUp ==
    /\ pc = "done"
    /\ \/ ret.err.kind \in {"timed out", "context canceled"}
       \/ cancelled /\ ret.err.kind = "perform"

C18_NoCompensation ==
    C18_PollerGaveUp =>
        /\ cur.done
        /\ HasError(cur.diag)
        /\ cur.out = NoState
        /\ ~stored.present
        /\ Len(cur.reqs) = 1 + polls
        /\ cur.reqs[1] = Req("POST", CreatePath("model_register"))
        /\ \A i \in 2..Len(cur.reqs) : cur.reqs[i] = Req("GET", TaskPath(cur.taskID))

C18_Witness ==
    /\ C18_PollerGaveUp
    /\ ret.err.kind = "timed out"
    /\ ~cancelled
    /\ polls = 3
    /\ Len(cur.reqs) = 4
    /\ stored = NoState

\* C19: 404 is the only status outside 2xx that ends a call without an
\* error, and only in Read and Delete, where it always does; a status
\* outside 2xx, 404 included, in answer to a create request or to a status
\* request is reported as an error.
C19_Only404Forgiven ==
    /\ ( /\ cur.op \in {"Create", "Read", "Delete"}
         /\ cur.done
         /\ cur.resp.err = ""
         /\ ~Is2xx(cur.resp.status)
         /\ ~HasError(cur.diag) ) =>
          /\ cur.resp.status = 404
          /\ cur.op \in {"Read", "Delete"}
    /\ ( /\ cur.op \in {"Read", "Delete"}
         /\ cur.resp.err = ""
         /\ cur.resp.status = 404 ) => ~HasError(cur.diag)
    /\ (taskResp.err = "" /\ ~Is2xx(taskResp.status)) =>
          /\ ret.err # NoErr
          /\ HasError(cur.diag)

C19_Witness ==
    /\ cur.op = "Create"
    /\ kind = "model_group"
    /\ cur.resp = Answer(404, ErrBody)
    /\ cur.diag = StatusDiag("Error registering", 404, ErrBody)
    /\ stored = NoState

\* C20: for every kind, a Delete given a null, unknown or empty identifier
\* sends no request and reports no error.
C20_DeleteWithoutId ==
    /\ cur.op = "Delete"
    /\ cur.in.id \in {StringNull, StringUnknown, StringValue("")}

C20_DeleteWithoutIdNoOp ==
    C20_DeleteWithoutId =>
        /\ cur.reqs = <<>>
        /\ cur.resp = NoResp
        /\ ~HasError(cur.diag)
        /\ cur.out = cur.in
        /\ stored = NoState

C20_Witness ==
    /\ C20_DeleteWithoutId
    /\ kind = "model_register"
    /\ cur.in.id = StringValue("")
    /\ cur.reqs = <<>>
    /\ ~HasError(cur.diag)

\* The poller outcomes a caller has to tell apart: the remote said no, the
\* wait timed out, the wait was cancelled.
PollerFailures == {"failed", "timed out", "context canceled"}

\* C21: a model-register Create that fails on a poller error reports that
\* error itself: the diagnostic names the poller's outcome, so FAILED,
\* TIMED_OUT and CANCELLED never yield the same diagnostic.
C21_ClassificationPreserved ==
    /\ (pc = "done" /\ ret.err # NoErr) =>
          /\ HasError(cur.diag)
          /\ cur.diag.cause = ret.err.kind
          /\ cur.diag.status = ret.err.status
          /\ cur.diag.body = ret.err.body
    /\ \A k1, k2 \in PollerFailures :
          LET d1 == CreateFinish(cur.in, cur.taskID, Return("", Err(k1, 0, NoBody))).diag
              d2 == CreateFinish(cur.in, cur.taskID, Return("", Err(k2, 0, NoBody))).diag
          IN  d1 = d2 => k1 = k2

C21_Witness ==
    /\ pc = "done"
    /\ cancelled
    /\ ret = OnDone
    /\ cur.diag.cause = "context canceled"
    /\ cur.diag.cause # "timed out"
    /\ cur.diag.cause # "failed"

\* C22: a model-register Create answered 2xx with JSON that carries no task
\* identifier has failed without starting the poller.
C22_MissingTaskIdFails ==
    ( /\ kind = "model_register"
      /\ cur.op = "Create"
      /\ cur.resp.err = ""
      /\ Is2xx(cur.resp.status)
      /\ cur.resp.body.json
      /\ Field(cur.resp.body, "task_id") = "" ) =>
        /\ cur.done
        /\ HasError(cur.diag)
        /\ pc = "idle"
        /\ polls = 0
        /\ Len(cur.reqs) = 1

\* C23: a status request is never cut short by a cancellation: whenever the
\* poller is past a status request, that request ended no earlier than its
\* answer was due.
C23_NoCancelMidRequest ==
    (pc \in {"select", "done"} /\ polls > 0) => respAt >= reqEnd

\* The call's request was not completed: Perform failed, or reading the body
\* failed (Read does not read the body of a 404).
TransportFailed ==
    /\ cur.op \in {"Create", "Read", "Delete"}
    /\ \/ cur.resp.err = "perform"
       \/ /\ cur.resp.err = "read"
          /\ ~(cur.op = "Read" /\ cur.resp.status = StatusNotFound)

\* C24: every Create sends at most one create request, every Read at most
\* one GET and every Delete at most one DELETE, each to its own path; and a
\* call whose request was not completed reports an error after that single
\* attempt and leaves the stored state as it was.
C24_NoRetry ==
    /\ cur.op = "Create" => Len(CreateRequests) <= 1
    /\ cur.op = "Read" =>
          cur.reqs \in {<<>>, <<Req("GET", ItemPath(kind, ValueString(cur.in.id)))>>}
    /\ cur.op = "Delete" =>
          cur.reqs \in {<<>>, <<Req("DELETE", ItemPath(kind, ValueString(cur.in.id)))>>}
    /\ TransportFailed =>
          /\ cur.done
          /\ HasError(cur.diag)
          /\ cur.diag.cause = cur.resp.err
          /\ Len(cur.reqs) = 1
          /\ cur.op = "Create" => stored = NoState
          /\ cur.op \in {"Read", "Delete"} => (stored = cur.in /\ cur.out = cur.in)

C24_Witness ==
    /\ TransportFailed
    /\ kind = "model_register"
    /\ cur.op = "Delete"
    /\ cur.resp = PerformError
    /\ cur.reqs = <<Req("DELETE", "/_plugins/_ml/models/m1")>>
    /\ cur.diag = ErrDiag("Error deleting", "perform")
    /\ stored = State(StringValue("m1"), "d1")

\* C25: for every kind, a Read answered 2xx leaves the state exactly as it
\* was handed in, identifier and declared fields, whatever the body holds.
C25_ReadFound ==
    /\ cur.op = "Read"
    /\ cur.resp.err = ""
    /\ Is2xx(cur.resp.status)

C25_ReadKeepsState ==
    C25_ReadFound =>
        /\ ~HasError(cur.diag)
        /\ cur.out = cur.in
        /\ stored = cur.in
        /\ stored.decl = cur.in.decl
        /\ stored.id = cur.in.id

C25_Witness ==
    /\ C25_ReadFound
    /\ kind = "connector"
    /\ cur.resp.body = FoundBody
    /\ Field(cur.resp.body, "name") # cur.in.decl
    /\ stored = State(StringValue("m1"), "d1")

\* The REST shape of each kind, as the interface documents it: the path of
\* the create request and the prefix of the item paths.
DocumentedCreatePath ==
    [model_group |-> "/_plugins/_ml/model_groups/_register",
     connector |-> "/_plugins/_ml/connectors/_create",
     model_register |-> "/_plugins/_ml/models/_register?deploy=true"]

DocumentedItemPrefix ==
    [model_group |-> "/_plugins/_ml/model_groups/",
     connector |-> "/_plugins/_ml/connectors/",
     model_register |-> "/_plugins/_ml/models/"]

\* C26: every request of a call has the documented shape of its kind: Create
\* sends POST to the create path and, for model-register, GETs of the task
\* it was given; Read sends GET and Delete sends DELETE to the item path
\* made of the identifier in the state; and when the state is the one the
\* Create before stored, that identifier is the one Create obtained.
C26_RestShape ==
    /\ cur.op = "Create" =>
          /\ cur.reqs[1] = Req("POST", DocumentedCreatePath[kind])
          /\ \A i \in 2..Len(cur.reqs) :
                /\ kind = "model_register"
                /\ cur.reqs[i] = Req("GET", "/_plugins/_ml/tasks/"
                                            \o Field(cur.resp.body, "task_id"))
    /\ cur.op = "Read" =>
          \A i \in 1..Len(cur.reqs) :
             cur.reqs[i] = Req("GET", DocumentedItemPrefix[kind]
                                      \o ValueString(cur.in.id))
    /\ cur.op = "Delete" =>
          \A i \in 1..Len(cur.reqs) :
             cur.reqs[i] = Req("DELETE", DocumentedItemPrefix[kind]
                                         \o ValueString(cur.in.id))
    /\ cur.op = "Update" => cur.reqs = <<>>
    /\ ( /\ prev.op = "Create"
         /\ prev.ok
         /\ prev.id # ""
         /\ cur.op \in {"Read", "Delete"}
         /\ cur.in.id = StringValue(prev.id) ) =>
          /\ Len(cur.reqs) = 1
          /\ cur.reqs[1].path = DocumentedItemPrefix[kind] \o prev.id

C26_Witness ==
    /\ kind = "connector"
    /\ prev.op = "Create"
    /\ prev.ok
    /\ prev.id = "m2"
    /\ cur.op = "Delete"
    /\ cur.in.id = StringValue("m2")
    /\ cur.reqs = <<Req("DELETE", "/_plugins/_ml/connectors/m2")>>

\* C27: once the deadline has passed the poller sends no further status
\* request: every step that leaves the select for a request is taken before
\* the deadline.
C27_NoPollAfterDeadline ==
    [][(pc = "select" /\ pc' = "request") => now < Timeout]_vars

\* C28: no status request is sent before the first tick, one poll interval
\* after the poller started: a poller that returned a model identifier or
\* the task's failure has waited that long and polled at least once, and a
\* poller cancelled before the first tick returned the context's error
\* having sent no status request.
C28_CancelledEarly ==
    /\ pc = "done"
    /\ cancelled
    /\ cancelAt < PollInterval

C28_FirstPollAtFirstTick ==
    /\ polls > 0 => now >= PollInterval
    /\ (cur.op = "Create" /\ Len(cur.reqs) > 1) => now >= PollInterval
    /\ (pc = "done" /\ (ret.err = NoErr \/ ret.err.kind = "failed")) =>
          /\ now >= PollInterval
          /\ polls >= 1
    /\ C28_CancelledEarly =>
          /\ ret = OnDone
          /\ polls = 0
          /\ cur.reqs = <<Req("POST", CreatePath("model_register"))>>

C28_Witness ==
    /\ C28_CancelledEarly
    /\ cancelAt = 1
    /\ now = 1
    /\ polls = 0
    /\ ret = OnDone
    /\ Len(cur.reqs) = 1

\* C29: of two Delete calls for the same identifier that run at the same
\* time against a remote that deletes atomically, each one that has
\* returned reports no error, whatever the order of their steps; and once
\* both have returned the artifact is gone, one of them having seen 2xx.
C29_BothReturned == \A p \in Procs : calls[p].pc = "done"

C29_ConcurrentDeletesSucceed ==
    /\ \A p \in Procs : calls[p].pc = "done" => ~HasError(calls[p].diag)
    /\ C29_BothReturned =>
          /\ RaceId \notin remote
          /\ \E p \in Procs : Is2xx(calls[p].resp.status)
          /\ \A p \in Procs : calls[p].resp.status \in OKStatuses \cup {404}

C29_Witness ==
    /\ C29_BothReturned
    /\ kind = "model_group"
    /\ calls[1].resp.status = 404
    /\ calls[2].resp.status = 200
    /\ \A p \in Procs : ~HasError(calls[p].diag)
    /\ RaceId \notin remote

\* Whether each handler closes the body of the response it obtained, on the
\* path the answer r takes it down.
CreateClosesBody(r) == r.err # "perform"
ReadClosesBody(st, r) ==
    ~MissingID(st) /\ r.err # "perform" /\ r.status # StatusNotFound
DeleteClosesBody(st, r) == ~MissingID(st) /\ r.err # "perform"
PollClosesBody(r) == r.err # "perform"

\* The call obtained a response: it sent its request and Perform returned one.
GotResponse == cur.reqs # <<>> /\ cur.resp.err \notin {"none", "perform"}

\* C30: a handler that has returned has closed the body of every response
\* it obtained.
C30_BodiesClosed ==
    /\ (cur.done /\ cur.op = "Create" /\ GotResponse) => CreateClosesBody(cur.resp)
    /\ (cur.done /\ cur.op = "Read" /\ GotResponse) => ReadClosesBody(cur.in, cur.resp)
    /\ (cur.done /\ cur.op = "Delete" /\ GotResponse) => DeleteClosesBody(cur.in, cur.resp)
    /\ (pc \in {"select", "done"} /\ taskResp.err \notin {"none", "perform"}) =>
          PollClosesBody(taskResp)

====
